---------------------------- MODULE Spec2Model ----------------------------
(***************************************************************************)
(* A model of HanabiState (hanabi_lib/hanabi_state.cc): the card supply    *)
(* (HanabiDeck), legality checking, move application, chance outcomes and  *)
(* the terminal status.                                                    *)
(*                                                                         *)
(* The per-card hint knowledge kept inside HanabiHand (and with it the     *)
(* history field newly_revealed_bitmask and the kSeer observation mode,    *)
(* which only pre-fills that knowledge) lives in hanabi_hand.cc and is not *)
(* modelled: a hand is its sequence of cards.                              *)
(***************************************************************************)
EXTENDS Integers, Sequences, FiniteSets, TLC

VARIABLES
  parent_game_,             \* the game configuration the state was built for
  ndebug,                   \* TRUE: the build compiles assert() out (NDEBUG)
  assert_failed,            \* an assert() fired: the process has aborted
  deck_,                    \* [card_count_, total_count_]
  hands_,                   \* player -> sequence of cards
  discard_pile_,            \* sequence of cards
  cur_player_,
  next_non_chance_player_,
  information_tokens_,
  life_tokens_,
  fireworks_,               \* color -> progress
  turns_to_play_,
  move_history_,            \* the records pushed, or the last of them (see PushBack)
  moves_after_empty         \* observer: ApplyMove calls entered with an empty deck

vars == <<parent_game_, ndebug, assert_failed, deck_, hands_, discard_pile_,
          cur_player_, next_non_chance_player_, information_tokens_,
          life_tokens_, fireworks_, turns_to_play_, move_history_,
          moves_after_empty>>

---------------------------------------------------------------------------
(* The HanabiGame the checked state is built for: its players, colors,     *)
(* ranks and hand size, the copies of each card, and the two token limits. *)
GameNumPlayers == 2
GameNumColors == 2
GameNumRanks == 2
GameHandSize == 2
GameLowRankCopies == 2
GameMaxInformationTokens == 2
GameMaxLifeTokens == 2

kChancePlayerId == -1

NumPlayers == parent_game_.num_players
NumColors == parent_game_.num_colors
NumRanks == parent_game_.num_ranks
HandSize == parent_game_.hand_size
MaxInformationTokens == parent_game_.max_information_tokens
MaxLifeTokens == parent_game_.max_life_tokens

Players == 0 .. (NumPlayers - 1)
Colors == 0 .. (NumColors - 1)
Ranks == 0 .. (NumRanks - 1)

(* HanabiGame::NumberCardInstances: one copy of the highest rank, several  *)
(* of every lower rank, none of a card outside the game.                   *)
NumberCardInstances(color, rank) ==
  IF color < 0 \/ color >= NumColors \/ rank < 0 \/ rank >= NumRanks THEN 0
  ELSE IF rank = NumRanks - 1 THEN 1
  ELSE parent_game_.low_rank_copies

---------------------------------------------------------------------------
(* Cards.                                                                  *)
HanabiCard(color, rank) == [color |-> color, rank |-> rank]
InvalidCard == HanabiCard(-1, -1)
IsValid(card) == card.color >= 0 /\ card.rank >= 0

(* Sum of f[x] over the finite set S.                                      *)
RECURSIVE SumOver(_, _)
SumOver(S, f) ==
  IF S = {} THEN 0
  ELSE LET x == CHOOSE y \in S : TRUE IN f[x] + SumOver(S \ {x}, f)

(* Number of positions of the sequence s holding the value v.              *)
CountIn(s, v) == Cardinality({i \in 1 .. Len(s) : s[i] = v})

---------------------------------------------------------------------------
(* HanabiDeck.                                                             *)
CardToIndex(color, rank) == color * NumRanks + rank
IndexToColor(index) == index \div NumRanks
IndexToRank(index) == index % NumRanks
DeckIndices == 0 .. (NumColors * NumRanks - 1)

HanabiDeck ==
  LET count == [index \in DeckIndices |->
                  NumberCardInstances(IndexToColor(index), IndexToRank(index))]
  IN [card_count_ |-> count, total_count_ |-> SumOver(DeckIndices, count)]

DeckSize(deck) == deck.total_count_
DeckEmpty(deck) == deck.total_count_ = 0
CardCount(deck, color, rank) == deck.card_count_[CardToIndex(color, rank)]

(* DealCard(color, rank) without the decrement of card_count_[index].      *)
DealCard_KeepsCount(deck, color, rank) ==
  LET index == CardToIndex(color, rank) IN
  IF deck.card_count_[index] <= 0
  THEN [deck |-> deck, card |-> InvalidCard]
  ELSE [deck |-> [card_count_ |-> deck.card_count_,
                  total_count_ |-> deck.total_count_ - 1],
        card |-> HanabiCard(IndexToColor(index), IndexToRank(index))]

(* DealCard(color, rank) without the decrement of total_count_.            *)
DealCard_KeepsTotal(deck, color, rank) ==
  LET index == CardToIndex(color, rank) IN
  IF deck.card_count_[index] <= 0
  THEN [deck |-> deck, card |-> InvalidCard]
  ELSE [deck |-> [card_count_ |-> [deck.card_count_ EXCEPT ![index] = @ - 1],
                  total_count_ |-> deck.total_count_],
        card |-> HanabiCard(IndexToColor(index), IndexToRank(index))]

(* DealCard(color, rank): the deck afterwards and the card returned.       *)
DealCard(deck, color, rank) ==
  LET index == CardToIndex(color, rank) IN
  IF deck.card_count_[index] <= 0
  THEN [deck |-> deck, card |-> InvalidCard]
  ELSE [deck |-> [card_count_ |-> [deck.card_count_ EXCEPT ![index] = @ - 1],
                  total_count_ |-> deck.total_count_ - 1],
        card |-> HanabiCard(IndexToColor(index), IndexToRank(index))]

---------------------------------------------------------------------------
(* DealCard(rng): an empty deck returns the invalid card; otherwise        *)
(* discrete_distribution draws an index of positive weight card_count_,    *)
(* and both counters go down by one.  The set of the possible results.     *)
DealCardRandom(deck) ==
  IF DeckEmpty(deck) THEN {[deck |-> deck, card |-> InvalidCard]}
  ELSE {[deck |-> [card_count_ |-> [deck.card_count_ EXCEPT ![index] = @ - 1],
                   total_count_ |-> deck.total_count_ - 1],
         card |-> HanabiCard(IndexToColor(index), IndexToRank(index))] :
          index \in {i \in DeckIndices : deck.card_count_[i] > 0}}

(* AddCard without the increment of total_count_.                          *)
AddCard_KeepsTotal(deck, color, rank) ==
  [card_count_ |-> [deck.card_count_ EXCEPT ![CardToIndex(color, rank)] = @ + 1],
   total_count_ |-> deck.total_count_]

(* AddCard(color, rank): the deck afterwards.                              *)
AddCard(deck, color, rank) ==
  [card_count_ |-> [deck.card_count_ EXCEPT ![CardToIndex(color, rank)] = @ + 1],
   total_count_ |-> deck.total_count_ + 1]

(* SetContent(cards): both counters start again from 0 and count the valid *)
(* cards of the vector.                                                    *)
SetContent(deck, cards) ==
  LET valid == {i \in 1 .. Len(cards) : IsValid(cards[i])} IN
  [card_count_ |->
     [index \in DeckIndices |->
        Cardinality({i \in valid :
                       CardToIndex(cards[i].color, cards[i].rank) = index})],
   total_count_ |-> Cardinality(valid)]

(* HanabiHand, as far as HanabiState uses it: the cards in deal order.     *)
HandAddCard(cards, card) == Append(cards, card)

(* Erases the card at the 0-based card_index.                              *)
HandErase(cards, card_index) ==
  SubSeq(cards, 1, card_index) \o SubSeq(cards, card_index + 2, Len(cards))

(* The card at the 0-based card_index.                                     *)
HandCard(cards, card_index) == cards[card_index + 1]

RECURSIVE Pow2(_)
Pow2(n) == IF n = 0 THEN 1 ELSE 2 * Pow2(n - 1)

(* Bitmask (uint8_t) of the card indices whose color matches.              *)
HandColorBitmask(cards, color) ==
  SumOver({i \in 0 .. (Len(cards) - 1) : HandCard(cards, i).color = color},
          [i \in 0 .. (Len(cards) - 1) |-> Pow2(i)]) % 256

(* Bitmask (uint8_t) of the card indices whose rank matches.               *)
HandRankBitmask(cards, rank) ==
  SumOver({i \in 0 .. (Len(cards) - 1) : HandCard(cards, i).rank = rank},
          [i \in 0 .. (Len(cards) - 1) |-> Pow2(i)]) % 256

---------------------------------------------------------------------------
(* Moves and history records.                                              *)
HanabiMove(move_type, card_index, target_offset, color, rank) ==
  [move_type |-> move_type, card_index |-> card_index,
   target_offset |-> target_offset, color |-> color, rank |-> rank]

DealMove(color, rank) == HanabiMove("kDeal", -1, -1, color, rank)
DiscardMove(card_index) == HanabiMove("kDiscard", card_index, -1, -1, -1)
PlayMove(card_index) == HanabiMove("kPlay", card_index, -1, -1, -1)
RevealColorMove(offset, color) == HanabiMove("kRevealColor", -1, offset, color, -1)
RevealRankMove(offset, rank) == HanabiMove("kRevealRank", -1, offset, -1, rank)

(* HanabiGame::GetChanceOutcome(uid), uid < MaxChanceOutcomes().           *)
MaxChanceOutcomes == NumColors * NumRanks
GetChanceOutcome(uid) == DealMove(IndexToColor(uid), IndexToRank(uid))

(* HanabiGame::GetMove over all uids.  The catalog belongs to HanabiGame;  *)
(* the model takes every well-formed move of every type, so that it is     *)
(* MoveIsLegal alone that decides what LegalMoves returns.                 *)
MoveCatalog ==
  {DiscardMove(i) : i \in 0 .. (HandSize - 1)}
    \cup {PlayMove(i) : i \in 0 .. (HandSize - 1)}
    \cup {RevealColorMove(o, c) : o \in 1 .. (NumPlayers - 1), c \in Colors}
    \cup {RevealRankMove(o, r) : o \in 1 .. (NumPlayers - 1), r \in Ranks}
    \cup {DealMove(c, r) : c \in Colors, r \in Ranks}

HanabiHistoryItem(move) ==
  [move |-> move, player |-> -1, deal_to_player |-> -1, scored |-> FALSE,
   information_token |-> FALSE, color |-> -1, rank |-> -1, reveal_bitmask |-> 0]

(* push_back putting the record in front of the vector.                    *)
PushBack_Front(history, item) ==
  IF parent_game_.whole_history THEN <<item>> \o history ELSE <<item>>

(* move_history_.push_back(item).  HanabiState never reads a record it    *)
(* has pushed.  The whole vector is kept where the model is told to        *)
(* (whole_history, a setting of the model beside the HanabiGame fields);   *)
(* elsewhere the model retains the most recent record,                     *)
(* move_history_.back(), which keeps the state graph from being a tree.    *)
PushBack(history, item) ==
  IF parent_game_.whole_history THEN Append(history, item) ELSE <<item>>

Back(history) == history[Len(history)]

---------------------------------------------------------------------------
(* HanabiState: helpers of the transition.                                 *)

(* PlayerToDeal scanning the hands from the highest index down.            *)
PlayerToDeal_Highest(hands) ==
  LET short == {i \in Players : Len(hands[i]) < HandSize} IN
  IF short = {} THEN -1
  ELSE CHOOSE i \in short : \A j \in short : i >= j

(* Lowest player index whose hand is below HandSize, or -1.                *)
PlayerToDeal(hands) ==
  LET short == {i \in Players : Len(hands[i]) < HandSize} IN
  IF short = {} THEN -1
  ELSE CHOOSE i \in short : \A j \in short : i <= j

(* HandByOffset(offset): the hand offset seats after the current player.   *)
HandByOffset(offset) == hands_[(cur_player_ + offset) % NumPlayers]

(* IncrementInformationTokens without the test against the limit.         *)
IncrementInformationTokens_NoCap(information_tokens) ==
  [information_tokens |-> information_tokens + 1, result |-> TRUE]

(* IncrementInformationTokens: the counter afterwards, and the returned    *)
(* flag (whether a token was gained).                                      *)
IncrementInformationTokens(information_tokens) ==
  IF information_tokens < MaxInformationTokens
  THEN [information_tokens |-> information_tokens + 1, result |-> TRUE]
  ELSE [information_tokens |-> information_tokens, result |-> FALSE]

(* DecrementInformationTokens: assert(information_tokens_ > 0), then the   *)
(* decrement (which an NDEBUG build performs whatever the assert says).    *)
DecrementInformationTokens(information_tokens) ==
  [information_tokens |-> information_tokens - 1,
   assert_fails |-> ~(information_tokens > 0)]

(* DecrementLifeTokens: assert(life_tokens_ > 0), then the decrement.      *)
DecrementLifeTokens(life_tokens) ==
  [life_tokens |-> life_tokens - 1, assert_fails |-> ~(life_tokens > 0)]

(* CardPlayableOnFireworks comparing with <= in place of ==.               *)
CardPlayableOnFireworks_AtMost(fireworks, color, rank) ==
  IF color < 0 \/ color >= NumColors THEN FALSE
  ELSE rank <= fireworks[color]

(* CardPlayableOnFireworks comparing with >= in place of ==.               *)
CardPlayableOnFireworks_AtLeast(fireworks, color, rank) ==
  IF color < 0 \/ color >= NumColors THEN FALSE
  ELSE rank >= fireworks[color]

CardPlayableOnFireworks(fireworks, color, rank) ==
  IF color < 0 \/ color >= NumColors THEN FALSE
  ELSE rank = fireworks[color]

(* AddToFireworks(card): the returned pair (scored, information_token) and *)
(* the fireworks and token counters it leaves.                             *)
AddToFireworks(card, fireworks, information_tokens, life_tokens) ==
  IF CardPlayableOnFireworks(fireworks, card.color, card.rank)
  THEN LET raised == [fireworks EXCEPT ![card.color] = @ + 1] IN
       IF raised[card.color] = NumRanks
       THEN LET inc == IncrementInformationTokens(information_tokens) IN
            [scored |-> TRUE, information_token |-> inc.result,
             fireworks |-> raised, information_tokens |-> inc.information_tokens,
             life_tokens |-> life_tokens, assert_fails |-> FALSE]
       ELSE [scored |-> TRUE, information_token |-> FALSE,
             fireworks |-> raised, information_tokens |-> information_tokens,
             life_tokens |-> life_tokens, assert_fails |-> FALSE]
  ELSE LET dec == DecrementLifeTokens(life_tokens) IN
       [scored |-> FALSE, information_token |-> FALSE,
        fireworks |-> fireworks, information_tokens |-> information_tokens,
        life_tokens |-> dec.life_tokens, assert_fails |-> dec.assert_fails]

(* HintingIsLegal without the test of the information tokens.              *)
HintingIsLegal_AnyTokens(move) ==
  IF move.target_offset < 1 \/ move.target_offset >= NumPlayers THEN FALSE
  ELSE TRUE

HintingIsLegal(move) ==
  IF information_tokens_ <= 0 THEN FALSE
  ELSE IF move.target_offset < 1 \/ move.target_offset >= NumPlayers THEN FALSE
  ELSE TRUE

(* MoveIsLegal, case kDeal, with the actor check left out.                 *)
DealIsLegal_AnyActor(move) ==
  IF CardCount(deck_, move.color, move.rank) = 0 THEN FALSE
  ELSE TRUE

(* MoveIsLegal, case kDeal.                                                *)
DealIsLegal(move) ==
  IF cur_player_ # kChancePlayerId THEN FALSE
  ELSE IF CardCount(deck_, move.color, move.rank) = 0 THEN FALSE
  ELSE TRUE

(* MoveIsLegal, case kDiscard, with the token check left out.              *)
DiscardIsLegal_AtCap(move) ==
  IF move.card_index >= Len(hands_[cur_player_]) THEN FALSE
  ELSE TRUE

(* MoveIsLegal, case kDiscard.                                             *)
DiscardIsLegal(move) ==
  IF information_tokens_ >= MaxInformationTokens THEN FALSE
  ELSE IF move.card_index >= Len(hands_[cur_player_]) THEN FALSE
  ELSE TRUE

MoveIsLegal(move) ==
  CASE move.move_type = "kDeal" -> DealIsLegal(move)
    [] move.move_type = "kDiscard" -> DiscardIsLegal(move)
    [] move.move_type = "kPlay" ->
         IF move.card_index >= Len(hands_[cur_player_]) THEN FALSE
         ELSE TRUE
    [] move.move_type = "kRevealColor" ->
         IF ~HintingIsLegal(move) THEN FALSE
         ELSE LET cards == HandByOffset(move.target_offset) IN
              \E i \in 1 .. Len(cards) : cards[i].color = move.color
    [] move.move_type = "kRevealRank" ->
         IF ~HintingIsLegal(move) THEN FALSE
         ELSE LET cards == HandByOffset(move.target_offset) IN
              \E i \in 1 .. Len(cards) : cards[i].rank = move.rank
    [] OTHER -> FALSE

(* LegalMoves(player), player in [0, NumPlayers).                          *)
LegalMoves(player) ==
  IF player # cur_player_ THEN {}
  ELSE {move \in MoveCatalog : MoveIsLegal(move)}

(* A probability is kept as the exact quotient num / den.                  *)
ChanceOutcomeProb(move) ==
  [num |-> CardCount(deck_, move.color, move.rank), den |-> DeckSize(deck_)]

(* ChanceOutcomes(): the legal outcomes in uid order, each with its        *)
(* probability.                                                            *)
ChanceOutcomes ==
  LET all == [k \in 1 .. MaxChanceOutcomes |->
                [move |-> GetChanceOutcome(k - 1),
                 prob |-> ChanceOutcomeProb(GetChanceOutcome(k - 1))]]
      legal(outcome) == MoveIsLegal(outcome.move)
  IN SelectSeq(all, legal)

(* Score without the test of the life tokens.                              *)
Score_IgnoresLife == SumOver(Colors, fireworks_)

Score ==
  IF life_tokens_ <= 0 THEN 0
  ELSE SumOver(Colors, fireworks_)

(* EndOfGameStatus comparing the score with > in place of >=.             *)
EndOfGameStatus_StrictlyMore ==
  IF life_tokens_ < 1 THEN "kOutOfLifeTokens"
  ELSE IF Score > NumColors * NumRanks THEN "kCompletedFireworks"
  ELSE IF turns_to_play_ <= 0 THEN "kOutOfCards"
  ELSE "kNotFinished"

(* EndOfGameStatus comparing the countdown with = in place of <=.          *)
EndOfGameStatus_CountdownAtZero ==
  IF life_tokens_ < 1 THEN "kOutOfLifeTokens"
  ELSE IF Score >= NumColors * NumRanks THEN "kCompletedFireworks"
  ELSE IF turns_to_play_ = 0 THEN "kOutOfCards"
  ELSE "kNotFinished"

EndOfGameStatus ==
  IF life_tokens_ < 1 THEN "kOutOfLifeTokens"
  ELSE IF Score >= NumColors * NumRanks THEN "kCompletedFireworks"
  ELSE IF turns_to_play_ <= 0 THEN "kOutOfCards"
  ELSE "kNotFinished"

---------------------------------------------------------------------------
(* ApplyMove.                                                              *)

(* The switch of ApplyMove: what each move type leaves in the deck, the    *)
(* hands, the discard pile, the counters and the history record, and       *)
(* whether an assert() on the way had a false condition.                   *)
MoveEffect(move) ==
  LET history == [HanabiHistoryItem(move) EXCEPT !.player = cur_player_]
      same == [deck |-> deck_, hands |-> hands_, discard_pile |-> discard_pile_,
               information_tokens |-> information_tokens_,
               life_tokens |-> life_tokens_, fireworks |-> fireworks_,
               history |-> history, assert_fails |-> FALSE]
  IN
  CASE move.move_type = "kDeal" ->
         LET deal_to_player == PlayerToDeal(hands_)
             dealt == DealCard(deck_, move.color, move.rank)
         IN [same EXCEPT
               !.deck = dealt.deck,
               !.hands = [hands_ EXCEPT ![deal_to_player] =
                            HandAddCard(@, dealt.card)],
               !.history = [history EXCEPT !.deal_to_player = deal_to_player]]
    [] move.move_type = "kDiscard" ->
         LET inc == IncrementInformationTokens(information_tokens_)
             card == HandCard(hands_[cur_player_], move.card_index)
         IN [same EXCEPT
               !.information_tokens = inc.information_tokens,
               !.hands = [hands_ EXCEPT ![cur_player_] =
                            HandErase(@, move.card_index)],
               !.discard_pile = Append(discard_pile_, card),
               !.history = [history EXCEPT !.information_token = inc.result,
                                           !.color = card.color,
                                           !.rank = card.rank]]
    [] move.move_type = "kPlay" ->
         LET card == HandCard(hands_[cur_player_], move.card_index)
             added == AddToFireworks(card, fireworks_, information_tokens_,
                                     life_tokens_)
         IN [same EXCEPT
               !.fireworks = added.fireworks,
               !.information_tokens = added.information_tokens,
               !.life_tokens = added.life_tokens,
               !.hands = [hands_ EXCEPT ![cur_player_] =
                            HandErase(@, move.card_index)],
               !.discard_pile = IF added.scored THEN discard_pile_
                                ELSE Append(discard_pile_, card),
               !.history = [history EXCEPT
                              !.color = card.color,
                              !.rank = card.rank,
                              !.scored = added.scored,
                              !.information_token = added.information_token],
               !.assert_fails = added.assert_fails]
    [] move.move_type = "kRevealColor" ->
         LET dec == DecrementInformationTokens(information_tokens_) IN
         [same EXCEPT
            !.information_tokens = dec.information_tokens,
            !.history = [history EXCEPT !.reveal_bitmask =
                           HandColorBitmask(HandByOffset(move.target_offset),
                                            move.color)],
            !.assert_fails = dec.assert_fails]
    [] move.move_type = "kRevealRank" ->
         LET dec == DecrementInformationTokens(information_tokens_) IN
         [same EXCEPT
            !.information_tokens = dec.information_tokens,
            !.history = [history EXCEPT !.reveal_bitmask =
                           HandRankBitmask(HandByOffset(move.target_offset),
                                           move.rank)],
            !.assert_fails = dec.assert_fails]

(* The countdown decremented by every move, whatever the deck holds.       *)
TurnsAfterMove_Always == turns_to_play_ - 1

(* The countdown ApplyMove leaves: one less when the deck is empty on      *)
(* entry.                                                                  *)
TurnsAfterMove == IF DeckEmpty(deck_) THEN turns_to_play_ - 1 ELSE turns_to_play_

(* AdvanceToNextPlayer moving the round-robin pointer on every call, a     *)
(* chance turn included.                                                   *)
AdvanceToNextPlayer_ChanceAdvances(deck, hands) ==
  IF ~DeckEmpty(deck) /\ PlayerToDeal(hands) >= 0
  THEN [cur_player |-> kChancePlayerId,
        next_non_chance_player |-> (next_non_chance_player_ + 1) % NumPlayers]
  ELSE [cur_player |-> next_non_chance_player_,
        next_non_chance_player |-> (next_non_chance_player_ + 1) % NumPlayers]

(* AdvanceToNextPlayer handing over to the chance actor whenever a hand is *)
(* short, the deck empty or not.                                           *)
AdvanceToNextPlayer_IgnoresDeck(deck, hands) ==
  IF PlayerToDeal(hands) >= 0
  THEN [cur_player |-> kChancePlayerId,
        next_non_chance_player |-> next_non_chance_player_]
  ELSE [cur_player |-> next_non_chance_player_,
        next_non_chance_player |-> (next_non_chance_player_ + 1) % NumPlayers]

(* AdvanceToNextPlayer on the deck and hands the move left: the new        *)
(* cur_player_ and next_non_chance_player_.                                *)
AdvanceToNextPlayer(deck, hands) ==
  IF ~DeckEmpty(deck) /\ PlayerToDeal(hands) >= 0
  THEN [cur_player |-> kChancePlayerId,
        next_non_chance_player |-> next_non_chance_player_]
  ELSE [cur_player |-> next_non_chance_player_,
        next_non_chance_player |-> (next_non_chance_player_ + 1) % NumPlayers]

(* ApplyMove(move).  REQUIRE(MoveIsLegal(move)) is the guard.  A false     *)
(* assert() aborts the process unless the build is NDEBUG, in which case   *)
(* the call runs to its end.                                               *)
ApplyMove(move) ==
  /\ ~assert_failed
  /\ MoveIsLegal(move)
  /\ \E effect \in {MoveEffect(move)} :
     IF effect.assert_fails /\ ~ndebug
     THEN /\ assert_failed' = TRUE
          /\ UNCHANGED <<parent_game_, ndebug, deck_, hands_, discard_pile_,
                         cur_player_, next_non_chance_player_,
                         information_tokens_, life_tokens_, fireworks_,
                         turns_to_play_, move_history_, moves_after_empty>>
     ELSE \E next \in {AdvanceToNextPlayer(effect.deck, effect.hands)} :
          /\ turns_to_play_' = TurnsAfterMove
          /\ deck_' = effect.deck
          /\ hands_' = effect.hands
          /\ discard_pile_' = effect.discard_pile
          /\ information_tokens_' = effect.information_tokens
          /\ life_tokens_' = effect.life_tokens
          /\ fireworks_' = effect.fireworks
          /\ move_history_' = PushBack(move_history_, effect.history)
          /\ cur_player_' = next.cur_player
          /\ next_non_chance_player_' = next.next_non_chance_player
          /\ moves_after_empty' =
               IF DeckEmpty(deck_) THEN moves_after_empty + 1 ELSE 0
          /\ UNCHANGED <<parent_game_, ndebug, assert_failed>>

(* ApplyRandomChance: REQUIRE a non-empty outcome set; PickRandomChance    *)
(* returns any outcome of positive probability.                            *)
ApplyRandomChance ==
  LET chance_outcomes == ChanceOutcomes IN
  /\ Len(chance_outcomes) > 0
  /\ \E k \in 1 .. Len(chance_outcomes) :
       /\ chance_outcomes[k].prob.num > 0
       /\ ApplyMove(chance_outcomes[k].move)

(* The driver's turn for a player: any member of LegalMoves.               *)
ApplyLegalMove ==
  /\ cur_player_ \in Players
  /\ \E move \in LegalMoves(cur_player_) : ApplyMove(move)

---------------------------------------------------------------------------
(* The state after construction, HanabiState(parent_game, start_player),   *)
(* for either build and every start player.                                *)
Game ==
  [num_players |-> GameNumPlayers, num_colors |-> GameNumColors,
   num_ranks |-> GameNumRanks, hand_size |-> GameHandSize,
   low_rank_copies |-> GameLowRankCopies,
   max_information_tokens |-> GameMaxInformationTokens,
   max_life_tokens |-> GameMaxLifeTokens,
   whole_history |-> FALSE]

(* HanabiState(parent_game, start_player).                                 *)
Construct(parent_game) ==
  /\ parent_game_ = parent_game
  /\ ndebug \in BOOLEAN
  /\ assert_failed = FALSE
  /\ deck_ = HanabiDeck
  /\ hands_ = [p \in Players |-> <<>>]
  /\ cur_player_ = kChancePlayerId
  /\ next_non_chance_player_ \in Players
  /\ information_tokens_ = MaxInformationTokens
  /\ life_tokens_ = MaxLifeTokens
  /\ fireworks_ = [c \in Colors |-> 0]
  /\ turns_to_play_ = NumPlayers
  /\ discard_pile_ = <<>>
  /\ move_history_ = <<>>
  /\ moves_after_empty = 0

Init == Construct(Game)

Next ==
  \/ ApplyRandomChance
  \/ ApplyLegalMove

Spec == Init /\ [][Next]_vars

---------------------------------------------------------------------------
(* The setters used to force a state.                                      *)

(* The counters a caller may pass for one color, one beyond NumRanks       *)
(* included.                                                               *)
FireworksValues == 0 .. (NumRanks + 1)

(* SetFireworks(fireworks): REQUIRE(fireworks.size() == fireworks_.size()) *)
(* is the domain of the vector.                                            *)
SetFireworks(fireworks) ==
  /\ ~assert_failed
  /\ fireworks_' = fireworks
  /\ UNCHANGED <<parent_game_, ndebug, assert_failed, deck_, hands_,
                 discard_pile_, cur_player_, next_non_chance_player_,
                 information_tokens_, life_tokens_, turns_to_play_,
                 move_history_, moves_after_empty>>

CallSetFireworks ==
  \E fireworks \in [Colors -> FireworksValues] : SetFireworks(fireworks)

NextForced ==
  \/ ApplyRandomChance
  \/ ApplyLegalMove
  \/ CallSetFireworks

(* The game the forced states are built for: hands of a single card, and   *)
(* a single copy of every card.                                            *)
ForcedGame == [Game EXCEPT !.hand_size = 1, !.low_rank_copies = 1]

InitForced == Construct(ForcedGame)

(* Moves interleaved with calls of the setters.                            *)
SpecForced == InitForced /\ [][NextForced]_vars

---------------------------------------------------------------------------
(* The driver of a game: while EndOfGameStatus() is kNotFinished it        *)
(* applies a chance outcome when the chance actor is to move and a member  *)
(* of LegalMoves otherwise, and it stops at a terminal status.             *)
DriveChance == EndOfGameStatus = "kNotFinished" /\ ApplyRandomChance

DrivePlayer == EndOfGameStatus = "kNotFinished" /\ ApplyLegalMove

NextDriver ==
  \/ DriveChance
  \/ DrivePlayer

(* The driver does not pause for ever while it has a move to apply.        *)
SpecDriver == Init /\ [][NextDriver]_vars /\ WF_vars(NextDriver)

---------------------------------------------------------------------------

(* The card supply on its own: calls of the four HanabiDeck operations on  *)
(* the deck of a freshly constructed state.                                *)

(* AddCard is called while the deck holds fewer cards than this.           *)
MaxDeckTotal == 7
(* The longest vector handed to SetContent.                                *)
MaxContentLen == 3

(* The cards a caller hands over: those of the game, and the invalid card. *)
ContentCards == {HanabiCard(c, r) : c \in Colors, r \in Ranks} \cup {InvalidCard}
ContentVectors ==
  UNION {[1 .. n -> ContentCards] : n \in 0 .. MaxContentLen}

DeckCall(deck) ==
  /\ deck_' = deck
  /\ UNCHANGED <<parent_game_, ndebug, assert_failed, hands_, discard_pile_,
                 cur_player_, next_non_chance_player_, information_tokens_,
                 life_tokens_, fireworks_, turns_to_play_, move_history_,
                 moves_after_empty>>

CallDealCardRandom == \E dealt \in DealCardRandom(deck_) : DeckCall(dealt.deck)

CallDealCard ==
  \E color \in Colors, rank \in Ranks :
    DeckCall(DealCard(deck_, color, rank).deck)

CallAddCard ==
  /\ DeckSize(deck_) < MaxDeckTotal
  /\ \E color \in Colors, rank \in Ranks : DeckCall(AddCard(deck_, color, rank))

CallSetContent == \E cards \in ContentVectors : DeckCall(SetContent(deck_, cards))

NextDeck ==
  \/ CallDealCardRandom
  \/ CallDealCard
  \/ CallAddCard
  \/ CallSetContent

SpecDeck == Init /\ [][NextDeck]_vars

---------------------------------------------------------------------------

(* Properties.                                                             *)

TotalCards ==
  SumOver(DeckIndices,
          [index \in DeckIndices |->
             NumberCardInstances(IndexToColor(index), IndexToRank(index))])

CopiesInHands(card) ==
  SumOver(Players, [p \in Players |-> CountIn(hands_[p], card)])

FireworksSum == SumOver(Colors, fireworks_)

HasHistory == Len(move_history_) > 0
LastRecord == Back(move_history_)

(* C1.  Card conservation: in every state reached by ApplyMove, for every  *)
(* identity (color, rank), the deck count + the copies in all hands + the  *)
(* copies in the discard pile + (1 if rank < fireworks[color], else 0)     *)
(* equals NumberCardInstances(color, rank); and no deck count is negative. *)
C1_CardConservation ==
  \A c \in Colors, r \in Ranks :
    /\ CardCount(deck_, c, r) >= 0
    /\ CardCount(deck_, c, r) + CopiesInHands(HanabiCard(c, r))
         + CountIn(discard_pile_, HanabiCard(c, r))
         + (IF r < fireworks_[c] THEN 1 ELSE 0)
       = NumberCardInstances(c, r)

(* A state where cards sit in every place at once: the deck, the hands,    *)
(* the discard pile and the fireworks.                                     *)
C1_Witness ==
  /\ DeckSize(deck_) > 0
  /\ Len(discard_pile_) > 0
  /\ FireworksSum > 0
  /\ \E p \in Players : Len(hands_[p]) > 0

(* A step is a call of ApplyMove that returned: the process did not abort. *)
Applied(move) == ApplyMove(move) /\ ~assert_failed'

(* The card the acting player holds at card_index.                         *)
ActorCard(card_index) == HandCard(hands_[cur_player_], card_index)

CardIndices == 0 .. (HandSize - 1)

(* Some move of the catalog was applied by its actor.                      *)
AppliedSomeMove ==
  \E move \in MoveCatalog :
    /\ move.move_type = "kDeal" \/ cur_player_ \in Players
    /\ Applied(move)

TokensInBounds ==
  /\ 0 <= information_tokens_ /\ information_tokens_ <= MaxInformationTokens
  /\ 0 <= life_tokens_ /\ life_tokens_ <= MaxLifeTokens

(* C2.  Token bounds: after every application of a legal move, in any      *)
(* reachable state, terminal or not, 0 <= information tokens <=            *)
(* MaxInformationTokens and 0 <= life tokens <= MaxLifeTokens, and each    *)
(* ApplyMove changes each of the two counters by at most 1.                *)
C2_TokenBounds ==
  /\ []TokensInBounds
  /\ [][AppliedSomeMove =>
          /\ information_tokens_' - information_tokens_ \in {-1, 0, 1}
          /\ life_tokens_' - life_tokens_ \in {-1, 0, 1}]_vars

C4_PlayableBonus ==
  [][\A i \in CardIndices :
       ( /\ cur_player_ \in Players
         /\ MoveIsLegal(PlayMove(i))
         /\ ActorCard(i).rank = fireworks_[ActorCard(i).color]
         /\ Applied(PlayMove(i)) )
       => ( /\ information_tokens_' =
                 IF fireworks_[ActorCard(i).color] + 1 = NumRanks
                    /\ information_tokens_ < MaxInformationTokens
                 THEN information_tokens_ + 1
                 ELSE information_tokens_
            /\ life_tokens_' = life_tokens_
            /\ Back(move_history_').information_token
                 = (information_tokens_' = information_tokens_ + 1) )]_vars

(* The last move applied was a Play that completed its color and gained a  *)
(* token.                                                                  *)
C4_Witness ==
  /\ HasHistory
  /\ LastRecord.move.move_type = "kPlay"
  /\ LastRecord.scored
  /\ LastRecord.information_token
  /\ fireworks_[LastRecord.color] = NumRanks

(* The same, with the tokens at the limit: nothing gained.                 *)
C4_AtLimit ==
  /\ HasHistory
  /\ LastRecord.move.move_type = "kPlay"
  /\ LastRecord.scored
  /\ ~LastRecord.information_token
  /\ fireworks_[LastRecord.color] = NumRanks
  /\ information_tokens_ = MaxInformationTokens

(* C5.  LegalMoves(p) is empty for every player p that is not the current  *)
(* actor (so for all players while the chance actor is to move), and       *)
(* LegalMoves(current actor) holds no Deal when the actor is a player.     *)
C5_LegalMovesOfActorOnly ==
  /\ \A p \in Players : p # cur_player_ => LegalMoves(p) = {}
  /\ cur_player_ \in Players =>
       \A move \in LegalMoves(cur_player_) : move.move_type # "kDeal"

(* A player is to move, has legal moves, and the deck still holds cards a  *)
(* Deal could name.                                                        *)
C5_Witness ==
  /\ cur_player_ \in Players
  /\ LegalMoves(cur_player_) # {}
  /\ \E c \in Colors, r \in Ranks : CardCount(deck_, c, r) > 0

(* The moves and the probabilities ChanceOutcomes returns.                 *)
OutcomeMoves == {ChanceOutcomes[k].move : k \in 1 .. Len(ChanceOutcomes)}
OutcomeNumerators ==
  SumOver(1 .. Len(ChanceOutcomes),
          [k \in 1 .. Len(ChanceOutcomes) |-> ChanceOutcomes[k].prob.num])

(* C6.  When the chance actor is to move and the deck is not empty,        *)
(* ChanceOutcomes() returns exactly the Deal(color, rank) moves of         *)
(* positive remaining count, each once, each paired with                   *)
(* count(color, rank) / deck size, and the probabilities sum to 1.         *)
C6_ChanceOutcomes ==
  (cur_player_ = kChancePlayerId /\ ~DeckEmpty(deck_)) =>
    /\ OutcomeMoves =
         {move \in {DealMove(c, r) : c \in Colors, r \in Ranks} :
            CardCount(deck_, move.color, move.rank) > 0}
    /\ Cardinality(OutcomeMoves) = Len(ChanceOutcomes)
    /\ \A k \in 1 .. Len(ChanceOutcomes) :
         /\ ChanceOutcomes[k].prob.num =
              CardCount(deck_, ChanceOutcomes[k].move.color,
                        ChanceOutcomes[k].move.rank)
         /\ ChanceOutcomes[k].prob.den = DeckSize(deck_)
         /\ ChanceOutcomes[k].prob.den > 0
    /\ OutcomeNumerators = DeckSize(deck_)

(* The chance actor is to move on a deck that has run out of one identity  *)
(* and still holds another.                                                *)
C6_Witness ==
  /\ cur_player_ = kChancePlayerId
  /\ ~DeckEmpty(deck_)
  /\ \E c \in Colors, r \in Ranks : CardCount(deck_, c, r) = 0
  /\ Len(ChanceOutcomes) > 0
  /\ Len(discard_pile_) > 0

(* C7.  End-game countdown: from the state right after the Deal that       *)
(* empties the deck, while life tokens stay positive and the fireworks     *)
(* incomplete, EndOfGameStatus() is not-finished after each of the next    *)
(* NumPlayers - 1 moves and out-of-cards from the NumPlayers-th on; these  *)
(* moves are made by the players in turn, starting after the player who    *)
(* drew the last card, so each takes exactly one more turn; and the        *)
(* countdown is never decremented while the deck is not empty.             *)
C7_EndGameCountdown ==
  /\ ~DeckEmpty(deck_) => turns_to_play_ = NumPlayers
  /\ (DeckEmpty(deck_) /\ life_tokens_ > 0
        /\ FireworksSum < NumColors * NumRanks) =>
       /\ moves_after_empty < NumPlayers => EndOfGameStatus = "kNotFinished"
       /\ moves_after_empty >= NumPlayers => EndOfGameStatus = "kOutOfCards"
  /\ (DeckEmpty(deck_) /\ HasHistory) =>
       /\ cur_player_ \in Players
       /\ moves_after_empty = 0 =>
            /\ LastRecord.move.move_type = "kDeal"
            /\ cur_player_ = (LastRecord.deal_to_player + 1) % NumPlayers
       /\ moves_after_empty > 0 =>
            /\ LastRecord.move.move_type # "kDeal"
            /\ cur_player_ = (LastRecord.player + 1) % NumPlayers

(* The NumPlayers-th move after the deck emptied has just been applied,    *)
(* with life tokens left and the fireworks incomplete.                     *)
C7_Witness ==
  /\ DeckEmpty(deck_)
  /\ moves_after_empty = NumPlayers
  /\ life_tokens_ > 0
  /\ FireworksSum < NumColors * NumRanks
  /\ EndOfGameStatus = "kOutOfCards"

(* C8.  In every state with life tokens equal to 0 EndOfGameStatus()       *)
(* reports out-of-life-tokens and Score() reports 0, whatever the          *)
(* fireworks counters and the countdown hold.                              *)
C8_OutOfLifeTokens ==
  life_tokens_ = 0 => (EndOfGameStatus = "kOutOfLifeTokens" /\ Score = 0)

(* Life tokens at 0 by unplayable Plays, with every color complete and the *)
(* countdown run out.                                                      *)
C8_Witness ==
  /\ life_tokens_ = 0
  /\ Len(discard_pile_) >= MaxLifeTokens
  /\ FireworksSum = NumColors * NumRanks
  /\ turns_to_play_ <= 0

(* A call of SetFireworks with counters that sum to NumColors x NumRanks.  *)
ForcedComplete ==
  /\ SumOver(Colors, fireworks_') = NumColors * NumRanks
  /\ fireworks_' \in [Colors -> FireworksValues]
  /\ SetFireworks(fireworks_')

(* C9, as claimed.  Whenever SetFireworks forces counters that sum to      *)
(* NumColors x NumRanks, in any state the setter can be called in,         *)
(* EndOfGameStatus() reports completed and Score() equals                  *)
(* NumColors x NumRanks.                                                   *)
C9_Original ==
  [][ForcedComplete =>
        /\ EndOfGameStatus' = "kCompletedFireworks"
        /\ Score' = NumColors * NumRanks]_vars

(* C9, amended.  Whenever SetFireworks forces counters that sum to         *)
(* NumColors x NumRanks in a state with at least one life token,           *)
(* EndOfGameStatus() reports completed and Score() equals                  *)
(* NumColors x NumRanks; with no life token left they report               *)
(* out-of-life-tokens and 0.                                               *)
C9_ForcedComplete ==
  [][ForcedComplete =>
        /\ life_tokens_ >= 1 =>
             /\ EndOfGameStatus' = "kCompletedFireworks"
             /\ Score' = NumColors * NumRanks
        /\ life_tokens_ < 1 =>
             /\ EndOfGameStatus' = "kOutOfLifeTokens"
             /\ Score' = 0]_vars

(* The fireworks stand complete by force: no card has left the deck and    *)
(* the hands, life tokens remain, and the status is completed.             *)
C9_Witness ==
  /\ FireworksSum = NumColors * NumRanks
  /\ \E c \in Colors : fireworks_[c] # NumRanks
  /\ DeckSize(deck_) + SumOver(Players, [p \in Players |-> Len(hands_[p])])
       = TotalCards
  /\ life_tokens_ >= 1
  /\ EndOfGameStatus = "kCompletedFireworks"
  /\ Score = NumColors * NumRanks

(* Every hand is full and no card has been discarded or played since the   *)
(* initial deal: a player is to move.                                      *)
AfterInitialDeal ==
  /\ cur_player_ \in Players
  /\ \A p \in Players : Len(hands_[p]) = HandSize
  /\ DeckSize(deck_) = TotalCards - NumPlayers * HandSize

(* The state the initial deal ends in: no player has moved yet.            *)
FreshlyDealt ==
  /\ AfterInitialDeal
  /\ LastRecord.move.move_type = "kDeal"

(* C10, as claimed.  Once the hands have been dealt full by repeated       *)
(* ApplyRandomChance from the fresh state, Discard(0) is a legal move for  *)
(* the acting player.                                                      *)
C10_Original == FreshlyDealt => MoveIsLegal(DiscardMove(0))

(* C10, amended.  Once the hands have been dealt full from the fresh       *)
(* state, Discard(0) is not legal, the information tokens being at their   *)
(* limit; it is legal for the acting player exactly once a hint has taken  *)
(* a token.  Applying it then increases the information tokens by at most  *)
(* 1 (never above the limit), lengthens the discard pile by exactly 1,     *)
(* drops the actor's hand size by 1 and makes the chance actor next, and   *)
(* the following Deal restores that hand to full size.                     *)
C10_DiscardScenario ==
  /\ [](FreshlyDealt => ~MoveIsLegal(DiscardMove(0)))
  /\ [](AfterInitialDeal =>
          (MoveIsLegal(DiscardMove(0))
             <=> information_tokens_ < MaxInformationTokens))
  /\ [][(AfterInitialDeal /\ MoveIsLegal(DiscardMove(0))
           /\ Applied(DiscardMove(0))) =>
          /\ information_tokens_' - information_tokens_ \in {0, 1}
          /\ information_tokens_' <= MaxInformationTokens
          /\ Len(discard_pile_') = Len(discard_pile_) + 1
          /\ Len(hands_'[cur_player_]) = HandSize - 1
          /\ cur_player_' = kChancePlayerId]_vars
  /\ [][(/\ cur_player_ = kChancePlayerId
         /\ HasHistory
         /\ LastRecord.move = DiscardMove(0)
         /\ DeckSize(deck_) = TotalCards - NumPlayers * HandSize
         /\ Len(hands_[LastRecord.player]) = HandSize - 1
         /\ ApplyRandomChance /\ ~assert_failed') =>
          /\ Len(hands_'[LastRecord.player]) = HandSize
          /\ \A p \in Players : Len(hands_'[p]) = HandSize]_vars

(* The Deal after the scenario's Discard(0) has just refilled the hand.    *)
C10_Witness ==
  /\ HasHistory
  /\ LastRecord.move.move_type = "kDeal"
  /\ Len(discard_pile_) = 1
  /\ FireworksSum = 0
  /\ life_tokens_ = MaxLifeTokens
  /\ information_tokens_ = MaxInformationTokens
  /\ DeckSize(deck_) = TotalCards - NumPlayers * HandSize - 1
  /\ \A p \in Players : Len(hands_[p]) = HandSize

(* Some hand holds fewer than HandSize cards.                              *)
SomeHandShort(hands) == \E p \in Players : Len(hands[p]) < HandSize

(* C11.  Actor transition: after every ApplyMove the current actor is the  *)
(* chance actor if and only if the deck is not empty and some hand is      *)
(* below HandSize, and otherwise it is the next non-chance player that was *)
(* stored before the move, the stored player then advancing by one modulo  *)
(* NumPlayers; a move that hands over to the chance actor leaves the       *)
(* stored player alone.  So the players act strictly round-robin: nobody   *)
(* acts before the construction (the stored player is then the start       *)
(* player), a player who is to act is always one behind the stored player, *)
(* and after a player's move the stored player is that player's successor  *)
(* whether or not a Deal comes in between.                                 *)
C11_ActorTransition ==
  /\ [](~HasHistory => cur_player_ = kChancePlayerId)
  /\ [](cur_player_ \in Players =>
          next_non_chance_player_ = (cur_player_ + 1) % NumPlayers)
  /\ []((HasHistory /\ LastRecord.player \in Players) =>
          /\ cur_player_ \in Players =>
               cur_player_ = (LastRecord.player + 1) % NumPlayers
          /\ cur_player_ = kChancePlayerId =>
               next_non_chance_player_ = (LastRecord.player + 1) % NumPlayers)
  /\ [][AppliedSomeMove =>
          /\ (cur_player_' = kChancePlayerId)
               <=> (~DeckEmpty(deck_') /\ SomeHandShort(hands_'))
          /\ cur_player_' = kChancePlayerId =>
               next_non_chance_player_' = next_non_chance_player_
          /\ cur_player_' # kChancePlayerId =>
               /\ cur_player_' = next_non_chance_player_
               /\ next_non_chance_player_' =
                    (next_non_chance_player_ + 1) % NumPlayers]_vars

(* A Deal has just replaced a card a player gave up, and the next player   *)
(* is to act: the hands are full again and the deck still holds cards.     *)
C11_Witness ==
  /\ HasHistory
  /\ LastRecord.move.move_type = "kDeal"
  /\ Len(discard_pile_) > 0
  /\ cur_player_ \in Players
  /\ ~DeckEmpty(deck_)
  /\ ~SomeHandShort(hands_)

(* The game whose whole history is kept: one color, hands of a single      *)
(* card.                                                                   *)
HistoryGame ==
  [Game EXCEPT !.num_colors = 1, !.hand_size = 1, !.whole_history = TRUE]

InitHistory == Construct(HistoryGame)

(* Moves interleaved with calls of the setters, the whole history kept.    *)
SpecHistory == InitHistory /\ [][NextForced]_vars

(* C12.  History is append-only: every ApplyMove of a legal move that      *)
(* returns lengthens move_history_ by exactly one record, whose move is    *)
(* the applied move and whose player is the actor before the move, and     *)
(* leaves every earlier record as it was; every other step (a setter, or a *)
(* call that is aborted) leaves the history as it was.                     *)
C12_HistoryAppendOnly ==
  /\ [][\A move \in MoveCatalog :
          ( /\ move.move_type = "kDeal" \/ cur_player_ \in Players
            /\ Applied(move) )
          => ( /\ Len(move_history_') = Len(move_history_) + 1
               /\ SubSeq(move_history_', 1, Len(move_history_)) = move_history_
               /\ Back(move_history_').move = move
               /\ Back(move_history_').player = cur_player_ )]_vars
  /\ [][~AppliedSomeMove => move_history_' = move_history_]_vars

(* The history holds the Deals of the initial deal, a move of each player  *)
(* and the Deals in between, the last record being a player's.             *)
C12_Witness ==
  /\ Len(move_history_) > NumPlayers * HandSize + NumPlayers
  /\ \A k \in 1 .. (NumPlayers * HandSize) :
       move_history_[k].move.move_type = "kDeal"
  /\ \E k \in 1 .. Len(move_history_) : move_history_[k].player = 0
  /\ \E k \in 1 .. Len(move_history_) : move_history_[k].player = 1
  /\ LastRecord.player \in Players

(* No player has discarded or played a card yet.                           *)
NoCardGivenUp == Len(discard_pile_) = 0 /\ FireworksSum = 0

(* C13.  Deal target.  While the chance actor deals before any card was    *)
(* given up, the hands fill in player-index order: every player below the  *)
(* one dealt to has a full hand and every player above has none.  After    *)
(* that, whenever the chance actor is to move, the last record is the      *)
(* Discard or Play of some player, that player's hand is the only one      *)
(* below HandSize and is short by exactly one card.  In both phases the    *)
(* Deal appends its card to that hand, leaves the other hands alone and    *)
(* records that player as deal_to_player.                                  *)
C13_DealTarget ==
  /\ []((cur_player_ = kChancePlayerId /\ NoCardGivenUp) =>
          \A p \in Players :
            /\ p < PlayerToDeal(hands_) => Len(hands_[p]) = HandSize
            /\ p > PlayerToDeal(hands_) => Len(hands_[p]) = 0)
  /\ []((cur_player_ = kChancePlayerId /\ ~NoCardGivenUp) =>
          /\ HasHistory
          /\ LastRecord.move.move_type \in {"kDiscard", "kPlay"}
          /\ LastRecord.player \in Players
          /\ PlayerToDeal(hands_) = LastRecord.player
          /\ \A p \in Players :
               Len(hands_[p]) =
                 IF p = LastRecord.player THEN HandSize - 1 ELSE HandSize)
  /\ [][\A c \in Colors, r \in Ranks :
          Applied(DealMove(c, r)) =>
            /\ PlayerToDeal(hands_) \in Players
            /\ hands_' = [hands_ EXCEPT ![PlayerToDeal(hands_)] =
                            Append(@, HanabiCard(c, r))]
            /\ Back(move_history_').deal_to_player = PlayerToDeal(hands_)]_vars

(* A Deal has just replaced the card the last player gave up: the hand     *)
(* dealt to is not the lowest-numbered one, and it is full again.          *)
C13_Witness ==
  /\ HasHistory
  /\ LastRecord.move.move_type = "kDeal"
  /\ LastRecord.deal_to_player = NumPlayers - 1
  /\ ~NoCardGivenUp
  /\ \A p \in Players : Len(hands_[p]) = HandSize

(* The hints a caller may form, target offsets 0 and NumPlayers included.  *)
HintMoves ==
  {RevealColorMove(o, c) : o \in 0 .. NumPlayers, c \in Colors}
    \cup {RevealRankMove(o, r) : o \in 0 .. NumPlayers, r \in Ranks}

(* The card has the color or the rank the hint names.                      *)
HintMatches(move, card) ==
  IF move.move_type = "kRevealColor" THEN card.color = move.color
  ELSE card.rank = move.rank

(* Bit i of the bitmask.                                                   *)
BitSet(bitmask, i) == (bitmask \div Pow2(i)) % 2 = 1

(* C14.  Hints.  On a player's turn a RevealColor or RevealRank is legal   *)
(* only if the information tokens are above 0, the target offset is in     *)
(* [1, NumPlayers) and the target hand holds at least one card of the      *)
(* hinted color or rank.  Applying a legal hint never fails an assert,     *)
(* takes exactly 1 information token, leaves the hands, the deck, the      *)
(* discard pile, the fireworks and the life tokens unchanged, and records  *)
(* a reveal bitmask whose bit i is set exactly when card i of the target   *)
(* hand has the hinted color or rank, so a bitmask that is not 0.          *)
C14_Hints ==
  /\ [](cur_player_ \in Players =>
          \A move \in HintMoves :
            MoveIsLegal(move) =>
              /\ information_tokens_ > 0
              /\ move.target_offset >= 1 /\ move.target_offset < NumPlayers
              /\ \E i \in 0 .. (Len(HandByOffset(move.target_offset)) - 1) :
                   HintMatches(move,
                               HandCard(HandByOffset(move.target_offset), i)))
  /\ [][\A move \in HintMoves :
          (cur_player_ \in Players /\ ApplyMove(move)) =>
            /\ ~assert_failed'
            /\ information_tokens_' = information_tokens_ - 1
            /\ UNCHANGED <<hands_, deck_, discard_pile_, fireworks_,
                           life_tokens_>>
            /\ \A i \in 0 .. (Len(HandByOffset(move.target_offset)) - 1) :
                 BitSet(Back(move_history_').reveal_bitmask, i)
                   <=> HintMatches(move,
                                   HandCard(HandByOffset(move.target_offset), i))
            /\ Back(move_history_').reveal_bitmask
                 < Pow2(Len(HandByOffset(move.target_offset)))
            /\ Back(move_history_').reveal_bitmask # 0]_vars

(* A rank hint has just been applied that matched the second card of the   *)
(* target hand and not the first, and took the last information token.     *)
C14_Witness ==
  /\ HasHistory
  /\ LastRecord.move.move_type = "kRevealRank"
  /\ LastRecord.reveal_bitmask = 2
  /\ information_tokens_ = 0
  /\ cur_player_ \in Players
  /\ ~MoveIsLegal(RevealRankMove(1, LastRecord.move.rank))

(* The deck with one card less of the identity at index.                   *)
DeckLess(deck, index) ==
  [card_count_ |-> [deck.card_count_ EXCEPT ![index] = @ - 1],
   total_count_ |-> deck.total_count_ - 1]

(* C15.  Card supply consistency: after any sequence of DealCard(rng),     *)
(* DealCard(color, rank), AddCard and SetContent every count is at least   *)
(* 0 and total_count_ is the sum of the counts.  On such a deck            *)
(* DealCard(color, rank) of an identity with count 0 and DealCard(rng) on  *)
(* an empty deck return the invalid card and leave the deck as it was; a   *)
(* draw that succeeds returns a valid card whose count was positive, takes *)
(* 1 from that count and from the total and leaves the other counts.       *)
C15_DeckConsistency ==
  /\ \A index \in DeckIndices : deck_.card_count_[index] >= 0
  /\ deck_.total_count_ = SumOver(DeckIndices, deck_.card_count_)
  /\ \A color \in Colors, rank \in Ranks :
       DealCard(deck_, color, rank) =
         IF CardCount(deck_, color, rank) = 0
         THEN [deck |-> deck_, card |-> InvalidCard]
         ELSE [deck |-> DeckLess(deck_, CardToIndex(color, rank)),
               card |-> HanabiCard(color, rank)]
  /\ DeckEmpty(deck_) =>
       DealCardRandom(deck_) = {[deck |-> deck_, card |-> InvalidCard]}
  /\ ~DeckEmpty(deck_) =>
       /\ DealCardRandom(deck_) # {}
       /\ \A dealt \in DealCardRandom(deck_) :
            /\ IsValid(dealt.card)
            /\ CardCount(deck_, dealt.card.color, dealt.card.rank) > 0
            /\ dealt.deck =
                 DeckLess(deck_, CardToIndex(dealt.card.color, dealt.card.rank))

(* A deck the calls have changed both ways: one identity is used up,       *)
(* another stands above the number of its copies in the game.              *)
C15_Witness ==
  /\ \E index \in DeckIndices : deck_.card_count_[index] = 0
  /\ \E c \in Colors, r \in Ranks :
       CardCount(deck_, c, r) > NumberCardInstances(c, r)
  /\ ~DeckEmpty(deck_)
  /\ Len(hands_[0]) = 0

(* C16.  Fireworks progress: in every state reached by ApplyMove each      *)
(* fireworks counter is in 0 .. NumRanks.  A Play of a card (color, r)     *)
(* with r equal to fireworks[color] raises that counter by exactly 1 and   *)
(* no other, takes the card out of the actor's hand and leaves the discard *)
(* pile as it was; every other applied move, a Play of any other card      *)
(* included, leaves every fireworks counter as it was.  So no counter ever *)
(* decreases.  (The move a step applied is the one of the record the step  *)
(* leaves at the back of the history.)                                     *)
C16_FireworksProgress ==
  /\ [](\A c \in Colors : fireworks_[c] \in 0 .. NumRanks)
  /\ [][\A c \in Colors : fireworks_'[c] >= fireworks_[c]]_vars
  /\ [][LET move == Back(move_history_').move IN
          ( /\ Len(move_history_') > 0
            /\ move.move_type = "kDeal" \/ cur_player_ \in Players
            /\ Applied(move) )
          => IF /\ move.move_type = "kPlay"
                /\ ActorCard(move.card_index).rank
                     = fireworks_[ActorCard(move.card_index).color]
             THEN /\ fireworks_' =
                       [fireworks_ EXCEPT
                          ![ActorCard(move.card_index).color] = @ + 1]
                  /\ hands_' =
                       [hands_ EXCEPT
                          ![cur_player_] = HandErase(@, move.card_index)]
                  /\ discard_pile_' = discard_pile_
             ELSE fireworks_' = fireworks_]_vars

(* A Play has just added a rank above the lowest to its color, nothing     *)
(* having been discarded: the hand is a card short and the pile empty.     *)
C16_Witness ==
  /\ HasHistory
  /\ LastRecord.move.move_type = "kPlay"
  /\ LastRecord.scored
  /\ LastRecord.rank > 0
  /\ fireworks_[LastRecord.color] = LastRecord.rank + 1
  /\ Len(hands_[LastRecord.player]) = HandSize - 1
  /\ Len(discard_pile_) = 0

(* The moves MoveIsLegal accepts from the actor of the state.              *)
LegalNow ==
  {move \in MoveCatalog :
     /\ move.move_type = "kDeal" \/ cur_player_ \in Players
     /\ MoveIsLegal(move)}

(* C17.  Legality is sufficient for application: in every state reached by *)
(* ApplyMove, terminal or not, no move that MoveIsLegal accepts meets a    *)
(* false assert(information_tokens_ > 0) or assert(life_tokens_ > 0)       *)
(* inside ApplyMove.                                                       *)
C17_LegalMovesApply ==
  \A move \in LegalNow : ~MoveEffect(move).assert_fails

(* C18.  Terminal status is absorbing under move application: a step from  *)
(* a state whose EndOfGameStatus() is not not-finished leads to a state    *)
(* whose status is not not-finished either; and no step increases the life *)
(* tokens, decreases a fireworks counter or increases the countdown        *)
(* turns_to_play_.                                                         *)
C18_TerminalAbsorbing ==
  /\ [][EndOfGameStatus # "kNotFinished" =>
          EndOfGameStatus' # "kNotFinished"]_vars
  /\ [][/\ life_tokens_' <= life_tokens_
        /\ turns_to_play_' <= turns_to_play_
        /\ \A c \in Colors : fireworks_'[c] >= fireworks_[c]]_vars

(* Moves were applied after the countdown ran out, life tokens remaining   *)
(* and the fireworks incomplete: the status is still out-of-cards.         *)
C18_Witness ==
  /\ turns_to_play_ < 0
  /\ life_tokens_ > 0
  /\ FireworksSum < NumColors * NumRanks
  /\ EndOfGameStatus = "kOutOfCards"

(* The actor of the state has something to apply: a chance outcome of      *)
(* positive probability, or a legal move.                                  *)
ActorCanMove ==
  IF cur_player_ = kChancePlayerId
  THEN \E k \in 1 .. Len(ChanceOutcomes) : ChanceOutcomes[k].prob.num > 0
  ELSE LegalMoves(cur_player_) # {}

(* C19.  Progress and termination: in a game whose deck holds at least     *)
(* NumPlayers x HandSize cards, driven by a driver that applies a legal    *)
(* move whenever EndOfGameStatus() is not-finished, every reachable        *)
(* not-finished state gives its actor at least one chance outcome or legal *)
(* move, no applied move is aborted by an assert, and the game reaches a   *)
(* terminal status.                                                        *)
C19_ProgressAndTermination ==
  /\ [](TotalCards >= NumPlayers * HandSize)
  /\ [](EndOfGameStatus = "kNotFinished" => ActorCanMove)
  /\ [](~assert_failed)
  /\ <>(EndOfGameStatus # "kNotFinished")

(* The driver has stopped at out-of-cards: every player has had the one    *)
(* turn that follows the last Deal.                                        *)
C19_Witness ==
  /\ EndOfGameStatus = "kOutOfCards"
  /\ moves_after_empty = NumPlayers
  /\ ~ENABLED NextDriver

---------------------------------------------------------------------------
(* SetHandCard(player, card_index, card).  The three REQUIREs are the      *)
(* guard.  The old card of the slot, if valid, goes back to the deck; the  *)
(* new identity is withdrawn with DealCard(color, rank), whose result is   *)
(* not looked at; the slot then holds the card passed in.                  *)
SetHandCard(player, card_index, card) ==
  /\ ~assert_failed
  /\ player >= 0 /\ player < NumPlayers
  /\ card_index >= 0 /\ card_index < Len(hands_[player])
  /\ IsValid(card)
  /\ \E old_card \in {HandCard(hands_[player], card_index)} :
     \E returned \in {IF IsValid(old_card)
                      THEN AddCard(deck_, old_card.color, old_card.rank)
                      ELSE deck_} :
     \E dealt \in {DealCard(returned, card.color, card.rank)} :
       /\ deck_' = dealt.deck
       /\ hands_' = [hands_ EXCEPT ![player][card_index + 1] = card]
  /\ UNCHANGED <<parent_game_, ndebug, assert_failed, discard_pile_,
                 cur_player_, next_non_chance_player_, information_tokens_,
                 life_tokens_, fireworks_, turns_to_play_, move_history_,
                 moves_after_empty>>

(* A caller's call, made in a state that satisfies card conservation: any  *)
(* player, any slot, any card of the game.                                 *)
CallSetHandCard ==
  /\ C1_CardConservation
  /\ \E player \in Players, card_index \in 0 .. (HandSize - 1),
        color \in Colors, rank \in Ranks :
       SetHandCard(player, card_index, HanabiCard(color, rank))

NextHandCard ==
  \/ ApplyRandomChance
  \/ ApplyLegalMove
  \/ CallSetHandCard

(* Moves interleaved with calls of SetHandCard.                            *)
SpecHandCard == InitForced /\ [][NextHandCard]_vars

(* C20.  SetHandCard rebalances the supply: every call with a valid        *)
(* player, card index and card, made in a state that satisfies card        *)
(* conservation, leaves a state that satisfies it, with the card in the    *)
(* slot and the deck's total size unchanged, whether or not the deck holds *)
(* a copy of the requested identity.                                       *)
C20_SetHandCardRebalances ==
  [][\A player \in Players, card_index \in CardIndices,
        color \in Colors, rank \in Ranks :
       ( /\ C1_CardConservation
         /\ SetHandCard(player, card_index, HanabiCard(color, rank)) )
       => ( /\ C1_CardConservation'
            /\ DeckSize(deck_') = DeckSize(deck_)
            /\ HandCard(hands_'[player], card_index)
                 = HanabiCard(color, rank) )]_vars

===========================================================================
